---- MODULE Spec2Model ----
(***************************************************************************)
(* Model of the transaction manager of src/options.go (the part that       *)
(* starts at line 80, "package transaction"): dbWrapper, getDbWrapper,       *)
(* setDbWrapper and transactionManager.Transaction, together with the       *)
(* connection source of src/db.go.                                          *)
(*                                                                         *)
(* A context is represented by what Transaction reads from it: the id of   *)
(* the dbWrapper stored under the manager's key (0 when there is none) and  *)
(* the cancellation state of the request it belongs to.  Wrappers are heap *)
(* objects shared by reference, so they live in the sequence `wrappers`.   *)
(* Every goroutine has a stack of running Transaction calls; a callback    *)
(* may call Transaction again (nested call) before it returns or panics.   *)
(*                                                                         *)
(* Two branches of Transaction have no action because no state of the      *)
(* program enables them: `db == nil` at line 197 (GetDB of src/db.go        *)
(* returns a registered connection or panics, never nil), and              *)
(* `!wrapper.inTransaction` at line 204 (a wrapper is only built with the   *)
(* flag set, line 192, and reset clears the handle together with it).      *)
(* The fields doneAtEntry, doneAtPost, panic, path and the sequences       *)
(* txs[t].ops are history: they record what a call saw and did.            *)
(*                                                                         *)
(* Three specifications share the variables.  Spec is the coordinator with *)
(* the contexts a request hands down its call chain.  SpecGetDb adds GetDb *)
(* and lets code keep the context a callback was given after the call is   *)
(* over.  SpecTM is the registry of managers, NewTransactionManager run by *)
(* several goroutines; its first look-up of the map takes no lock, so a    *)
(* look-up that overlaps the map assignment of another goroutine is a data *)
(* race, modelled by every outcome the runtime can produce.                *)
(***************************************************************************)
EXTENDS Integers, Sequences, FiniteSets, TLC

VARIABLES
    wrappers,   \* heap of dbWrapper objects: Seq of [db, inTransaction, err]
    txs,        \* one record per transaction begun with BeginTx
    calls,      \* one record per Transaction call ever entered
    stack,      \* stack[g]: ids of the calls running on goroutine g, innermost last
    cancelled,  \* cancelled[g]: ctx.Err() # nil for the request context of goroutine g
    dbRegister, \* TRUE once the connection of the manager's database is registered
    got,        \* the last GetDb call: what it was given, saw and returned
    tmMap,      \* the registry of managers: map key -> manager id (absent keys are not in the domain)
    mutex,      \* the registry's mutex: 0 when free, else the goroutine holding it
    managers,   \* heap of transactionManager objects ever constructed
    newTm,      \* newTm[p]: the NewTransactionManager call goroutine p is in
    tmRets,     \* the (pair, manager) results NewTransactionManager calls have returned
    entering,   \* entering[g]: the Transaction call goroutine g has entered but not yet passed line 209
    log,        \* logger: the package's global logger
    once,       \* logger: the sync.Once guarding Init
    initCalls,  \* initCalls[p]: the logger.Init call goroutine p is in
    inits,      \* the logger.Init calls that have returned
    str,        \* the string given to ParseOrderOption
    option      \* what ParseOrderOption made of it

\* the state of the transaction coordinator, of GetDb, of the registry, of
\* the logger and of the order parser
txVars == <<wrappers, txs, calls, stack, cancelled, dbRegister, entering>>
tmVars == <<tmMap, mutex, managers, newTm, tmRets>>
logVars == <<log, once, initCalls, inits>>
orderVars == <<str, option>>
vars == <<wrappers, txs, calls, stack, cancelled, dbRegister, got, tmMap, mutex, managers, newTm, tmRets,
          entering, log, once, initCalls, inits, str, option>>

(* ------------------------------ bounds -------------------------------- *)

\* number of Transaction calls entered in one behaviour
MaxCalls == 3
\* the same when calls are made on several goroutines
MaxConcCalls == 2
\* depth of nesting of Transaction calls
MaxDepth == 3
\* goroutines that call NewTransactionManager, and calls each of them makes
TmGoroutines == 2
MaxTmCalls == 2

(* ------------------------------ values -------------------------------- *)

\* error values are sequences of strings; the nil error is the empty one
NoErr == <<>>
\* the business error the callback of call c returns when it fails on its own
BizErr(c) == <<"E", c>>
\* ctx.Err() of a cancelled or timed-out context
CtxErr == <<"context canceled">>
\* the error of a failed Commit()
CommitErr == <<"commit failed">>
\* rberr: the error of a failed Rollback()
RollbackErr == <<"rollback failed">>
\* "nil" is the nil interface value; Data are the results a callback returns
NilRes == "nil"
Data == {"data"}
\* values a callback can panic with: an error value, or a non-error value
PanicValues == {[isErr |-> TRUE, v |-> <<"perr">>], [isErr |-> FALSE, v |-> <<"boom">>]}

\* recover() returning nil: no panic
NoPanic == [isErr |-> FALSE, v |-> <<>>]

\* the nil *dbWrapper / the nil *gorm.DB
NoWrapper == 0
NilDb == 0
\* the *gorm.DB of the registered connection (dbInfo.Conn): not a transaction
Conn == -1
\* errors.New("can not get db connection")
ConnErr == <<"can not get db connection">>
\* a goroutine that is not between lines 184 and 209 of a Transaction call
NoEntry == [phase |-> "none", ctx |-> NoWrapper, db |-> NilDb]
\* no GetDb call yet
NoGet == [ctx |-> NoWrapper, in |-> 0, seen |-> NilDb, source |-> "none", exit |-> "none", db |-> NilDb]

(* ------------------- pure helpers of the transaction manager ---------- *)

\* mutant: the wrapper is kept in the context passed in, not in a derived
\* one, so the original context yields the wrapper stored last
getDbWrapper_InPlace(ctx) == IF ctx = NoWrapper THEN Len(wrappers) ELSE ctx
\* getDbWrapper: ctx.Value(tm.ctxDbWrapperKey); a context is represented by
\* the id of the wrapper it carries under the manager's key
getDbWrapper(ctx) == ctx

\* setDbWrapper: context.WithValue(ctx, key, w): the derived context carries w
setDbWrapper(ctx, w) == w

\* the condition of line 186: no wrapper in the context, or one without handle
NeedsNewTx(w) == IF w = NoWrapper THEN TRUE ELSE wrappers[w].db = NilDb

\* mutant: only the wrapper is tested, not its handle
HasHandle_WrapperOnly(w) == w # NoWrapper
\* the condition of line 158: wrapper != nil && wrapper.db != nil
HasHandle(w) == IF w = NoWrapper THEN FALSE ELSE wrappers[w].db # NilDb

\* mutant: the handle obtained from the source is kept in the context's wrapper
WrappersAfterGetDb_Caches(w, db) ==
    IF w = NoWrapper THEN wrappers ELSE [wrappers EXCEPT ![w].db = db]
\* lines 156-163: GetDb assigns to no wrapper and derives no context
WrappersAfterGetDb(w, db) == wrappers

\* mutant: reset() leaves the error in place
reset_KeepsErr(w) == [db |-> NilDb, inTransaction |-> FALSE, err |-> wrappers[w].err]
\* dbWrapper.reset
reset(w) == [db |-> NilDb, inTransaction |-> FALSE, err |-> NoErr]

\* the wrapper built at lines 190-193
NewWrapper(tx) == [db |-> tx, inTransaction |-> TRUE, err |-> NoErr]

\* mutant: the error is formatted with %v, which does not wrap it
AlreadyFailedErr_NoWrap(e) == <<"transaction already has error:E">>
\* fmt.Errorf("transaction already has error:%w", wrapper.err)
AlreadyFailedErr(e) == <<"transaction already has error:">> \o e

\* lines 213-217: a recovered value that is an error is kept, any other value
\* is formatted into a new error
RecoverErr(r) == IF r.isErr THEN r.v ELSE <<"recover:">> \o r.v

\* mutant: line 237 runs whatever the callback returned
StickyAfterCallback_Clears(old, bizErr) == bizErr
\* lines 236-237: a business error is recorded in the wrapper
StickyAfterCallback(old, bizErr) == IF bizErr # NoErr THEN bizErr ELSE old

\* mutant: the recover returns after recording the error, whoever owns
RecoverRollsBack_Nobody(txOpenByMe) == FALSE
\* mutant: the ownership test of line 220 is dropped
RecoverRollsBack_Everyone(txOpenByMe) == TRUE
\* line 220: only the opener of the transaction rolls back in the recover
RecoverRollsBack(txOpenByMe) == txOpenByMe

\* mutant: the ownership test of line 244 is dropped
Resolves_Everyone(txOpenByMe) == TRUE
\* line 244: only the opener of the transaction resolves it
Resolves(txOpenByMe) == txOpenByMe

\* mutant: the context is not consulted
CtxDone_Never(g) == FALSE
\* lines 231 and 240: ctx.Err() # nil
CtxDone(g) == cancelled[g]

\* src/db.go 34-52, 62-70: GetDB panics instead of returning nil when the
\* service has no config or gorm.Open fails; once the connection is
\* registered it is returned without further checks
GetDBCanPanic == ~dbRegister

\* the runtime error of calling Rollback()/Commit() through a nil *gorm.DB
NilDeref == <<"nil pointer dereference">>

\* mutant: a sticky error of a nested call is not looked at (no line 253)
ResolutionOps_IgnoreSticky(bizErr, werr) ==
    IF bizErr # NoErr THEN <<"rollback">> ELSE <<"commit">>
\* mutant: the rollback branches do not return and fall through to the commit
ResolutionOps_FallThrough(bizErr, werr) ==
    IF bizErr # NoErr \/ werr # NoErr THEN <<"rollback", "commit">> ELSE <<"commit">>
\* lines 247-263: what the owning call issues on the transaction, in order:
\* each branch issues one operation and returns
ResolutionOps(bizErr, werr) ==
    IF bizErr # NoErr THEN <<"rollback">>
    ELSE IF werr # NoErr THEN <<"rollback">>
    ELSE <<"commit">>

\* mutant: a call that joined also reports the wrapper's sticky error
JoinedErr_Sticky(bizErr, werr) == IF bizErr # NoErr THEN bizErr ELSE werr
\* line 270: a call that joined returns its callback's error as it is
JoinedErr(bizErr, werr) == bizErr

\* mutant: a failed rollback replaces the error that caused it
ResolutionErr_RollbackErrWins(bizErr, werr, opFailed) ==
    IF opFailed THEN CommitErr
    ELSE IF bizErr # NoErr THEN bizErr
    ELSE werr
\* mutant: a failed rollback is returned in place of the error that caused it
ResolutionErr_RollbackFailureReturned(bizErr, werr, opFailed) ==
    IF (bizErr # NoErr \/ werr # NoErr) /\ opFailed THEN RollbackErr
    ELSE IF bizErr # NoErr THEN bizErr
    ELSE IF werr # NoErr THEN werr
    ELSE IF opFailed THEN CommitErr ELSE NoErr
\* mutant: the error of a failed commit is only logged
ResolutionErr_CommitErrDropped(bizErr, werr, opFailed) ==
    IF bizErr # NoErr THEN bizErr
    ELSE IF werr # NoErr THEN werr
    ELSE NoErr
\* lines 252, 260, 267: the error the owning call returns after resolving;
\* opFailed says whether Rollback()/Commit() reported an error
ResolutionErr(bizErr, werr, opFailed) ==
    IF bizErr # NoErr THEN bizErr
    ELSE IF werr # NoErr THEN werr
    ELSE IF opFailed THEN CommitErr ELSE NoErr

(* ------------------------------ state --------------------------------- *)

Goroutines == DOMAIN stack

Top(g) == stack[g][Len(stack[g])]

\* the record of a Transaction call that has passed lines 184-209
NewCall(g, ctx0, w, mine, tx) ==
    [g |-> g,
     parent |-> IF stack[g] = <<>> THEN 0 ELSE Top(g),
     ctx0 |-> ctx0,                \* wrapper carried by the context passed in
     ctx |-> setDbWrapper(ctx0, w),\* the local ctx after line 194
     wrapper |-> w,                \* the local variable wrapper
     txOpenByMe |-> mine,
     doneAtEntry |-> cancelled[g], \* the context was already done when passed in
     doneAtPost |-> FALSE,         \* the context was done at line 240
     tx |-> tx,                    \* the transaction wrapper.db stands for
     pc |-> "precheck",
     cbInvoked |-> FALSE,
     returnData |-> NilRes, bizErr |-> NoErr,
     panic |-> NoPanic,            \* the value the callback panicked with
     opFailed |-> FALSE,           \* rberr / commitError # nil at lines 248-263
     exit |-> "running", path |-> "none",
     res |-> NilRes, err |-> NoErr]

\* the record of a call that ended at lines 184-209
EndedCall(g, ctx0, w, exit, path, err) ==
    [NewCall(g, ctx0, w, FALSE, 0) EXCEPT
        !.ctx = ctx0, !.pc = "done", !.exit = exit, !.path = path, !.err = err]

\* a call returns (res, err): its frame is popped
Return(c, path, res, err) ==
    [calls EXCEPT ![c].pc = "done", ![c].exit = "returned", ![c].path = path,
                  ![c].res = res, ![c].err = err]

Pop(g) == [stack EXCEPT ![g] = SubSeq(stack[g], 1, Len(stack[g]) - 1)]

\* Rollback() or Commit() issued on transaction tx by call c
Issue(tx, op, c) ==
    [txs EXCEPT ![tx].ops = Append(txs[tx].ops, [op |-> op, by |-> c])]

RECURSIVE IssueAll(_, _, _)
IssueAll(tx, ops, c) ==
    IF ops = <<>> THEN txs
    ELSE [IssueAll(tx, SubSeq(ops, 1, Len(ops) - 1), c) EXCEPT
             ![tx].ops = Append(IssueAll(tx, SubSeq(ops, 1, Len(ops) - 1), c)[tx].ops,
                                [op |-> ops[Len(ops)], by |-> c])]

\* a panic leaves Transaction: the frame is popped without a result
Escape(c, path) ==
    [calls EXCEPT ![c].pc = "done", ![c].exit = "panicked", ![c].path = path]

\* the contexts code on goroutine g can pass to Transaction: the request's
\* own context (no wrapper) and the context given to any callback that is
\* running on g (its own, or an enclosing one's held in a closure)
CtxChoices(g) ==
    {NoWrapper} \cup {calls[c].ctx : c \in {k \in 1..Len(calls) : calls[k].g = g /\ calls[k].pc = "callback"}}

\* goroutine g is not between lines 184 and 209 of a Transaction call
Idle(g) == entering[g] = NoEntry
\* some goroutine is inside GetDBByDatabaseName at the assignment that
\* registers the connection (src/db.go 36-51, under the lock)
Registering == \E q \in Goroutines : entering[q].phase = "registering"

\* code on goroutine g is at a point where it can call Transaction
CanCall(g) ==
    /\ Idle(g)
    /\ Len(calls) < (IF Cardinality(Goroutines) = 1 THEN MaxCalls ELSE MaxConcCalls)
    /\ Len(stack[g]) < MaxDepth
    /\ stack[g] # <<>> => calls[Top(g)].pc = "callback"

\* the errors a callback has at hand to return: none, a business error of
\* its own, or the error a nested call returned to it
CallbackErrs(c) ==
    {NoErr, BizErr(c)} \cup
    {calls[k].err : k \in {j \in 1..Len(calls) : calls[j].parent = c /\ calls[j].exit = "returned"}}

(* ------------------------ the registry of managers -------------------- *)

\* service and database names: strings as sequences of characters
Names == {<<"a">>, <<"a", ":", "a">>}
Pairs == [serviceName : Names, database : Names]
\* line 128: mapKey := serviceName + ":" + database
mapKey(pair) == pair.serviceName \o <<":">> \o pair.database
\* lines 139-143: the manager constructed for a pair
newTransactionManager(pair) ==
    [serviceName |-> pair.serviceName, database |-> pair.database,
     ctxDbWrapperKey |-> <<"dbWrapper:">> \o mapKey(pair)]
\* the nil *transactionManager
NilTm == 0
TmProcs == 1..TmGoroutines
\* a goroutine outside NewTransactionManager that has made n calls of it
IdleTm == [pc |-> "idle", pair |-> [serviceName |-> <<>>, database |-> <<>>], tm |-> NilTm, n |-> 0]
\* the runtime has thrown "concurrent map read and map write": the process is over
Crashed == \E p \in TmProcs : newTm[p].pc = "fatal"
\* the map assignment of line 144 is in progress in goroutine q
Storing(q) == newTm[q].pc = "storing"

\* mutant: the look-up of line 129 returns what a locked look-up would
RacyOutcomes_Synchronised(p) ==
    IF mapKey(newTm[p].pair) \in DOMAIN tmMap THEN {"hit"} ELSE {"miss"}
\* what the unlocked look-up of line 129 can produce while another goroutine
\* is inside the assignment of line 144: the runtime detects the race and
\* throws; the key being assigned is not found, or found with its value not
\* yet stored; another key is looked up as if alone
RacyOutcomes(p) ==
    {"fatal"} \cup
    (IF \E q \in TmProcs : Storing(q) /\ mapKey(newTm[q].pair) = mapKey(newTm[p].pair)
     THEN {"miss", "nil"}
     ELSE IF mapKey(newTm[p].pair) \in DOMAIN tmMap THEN {"hit"} ELSE {"miss"})

\* NewTransactionManager returns tm to goroutine p
ReturnTm(p, tm) ==
    /\ newTm' = [newTm EXCEPT ![p] = [IdleTm EXCEPT !.n = newTm[p].n + 1]]
    /\ tmRets' = tmRets \cup {[pair |-> newTm[p].pair, tm |-> tm]}

(* ------------------------------ the logger ---------------------------- *)

\* goroutines that call logger.Init, and calls of it in one behaviour
LogGoroutines == 2
MaxInitCalls == 3
LogProcs == 1..LogGoroutines

\* the arguments Init is called with: file names (one empty), level names
\* (one that levelMap does not know) and an application name
FileNames == {"", "a.log"}
LevelNames == {"error", "verbose"}
AppNames == {"svc"}

\* src/logger/log.go 19-27: the levels by name
levelMap == [l \in {"debug", "info", "warn", "error", "dpanic", "panic", "fatal"} |-> l]
\* src/logger/log.go 29-34: an unknown name means info
getLoggerLevel(lvl) == IF lvl \in DOMAIN levelMap THEN levelMap[lvl] ELSE "info"
\* src/logger/log.go 46-83: the logger that line 82 stores in log: the file
\* of its hook (defaulted at 48-50), the level of its core, its app field
initHelper(fn, level, app) ==
    [fn |-> IF fn = "" THEN "data-debug.log" ELSE fn,
     level |-> getLoggerLevel(level),
     app |-> app]
\* src/logger/log.go 198-200: the logger the package's init() installs
StartLogger == initHelper("start.log", "debug", "")

\* mutant: Init calls initHelper without looking at the Once
onceDone_Never(o) == FALSE
\* src/logger/log.go 43: once.Do runs its function only while the Once is
\* not done
onceDone(o) == o.done

\* a goroutine outside Init that has made n calls of it; late says whether
\* some Init call had returned before the call began
IdleInit == [pc |-> "idle", fn |-> "", level |-> "", app |-> "", late |-> FALSE, n |-> 0]

\* Init returns to goroutine p; ran says whether this call ran initHelper
ReturnInit(p, ran) ==
    /\ initCalls' = [initCalls EXCEPT ![p] = [IdleInit EXCEPT !.n = initCalls[p].n + 1]]
    /\ inits' = inits \cup {[p |-> p, n |-> initCalls[p].n + 1, fn |-> initCalls[p].fn,
                             level |-> initCalls[p].level, app |-> initCalls[p].app,
                             late |-> initCalls[p].late, ran |-> ran]}

(* --------------------------- the order parser ------------------------- *)

\* strings are sequences of characters; the characters of the inputs
OrderChars == {"a", "c", "d", "e", "s", "A", "C", "D", "E", "S", "_", " "}
\* length of the arbitrary input strings and of the field names
MaxStrLen == 3
MaxFieldLen == 2

RECURSIVE StringsUpTo(_)
StringsUpTo(n) ==
    IF n = 0 THEN {<<>>}
    ELSE StringsUpTo(n - 1) \cup
         {Append(s, ch) : s \in {t \in StringsUpTo(n - 1) : Len(t) = n - 1}, ch \in OrderChars}

\* strings.ToLower on one character and on a string
lowerChar(ch) ==
    CASE ch = "A" -> "a" [] ch = "C" -> "c" [] ch = "D" -> "d"
      [] ch = "E" -> "e" [] ch = "S" -> "s" [] OTHER -> ch
ToLower(s) == [i \in 1..Len(s) |-> lowerChar(s[i])]
\* strings.HasSuffix
HasSuffix(s, suffix) ==
    /\ Len(s) >= Len(suffix)
    /\ SubSeq(s, Len(s) - Len(suffix) + 1, Len(s)) = suffix

\* src/field.go 51-56: the orders of an orderOption
ASC == 1
DESC == -1
\* the run-time panic of a slice expression s[:n] with n < 0
SliceOutOfRange == [panic |-> "slice bounds out of range"]
\* ParseOrderOption has not been called
NotParsed == [panic |-> "none"]

\* src/options.go 47-56 with src/field.go 381-393: the string is lowered; a
\* string ending in "desc" loses its last 5 characters and orders descending,
\* a string ending in "asc" loses its last 4 and orders ascending, any other
\* string is the field itself, ascending
ParseOrderOption(s) ==
    LET l == ToLower(s)
    IN IF HasSuffix(l, <<"d", "e", "s", "c">>)
       THEN IF Len(l) - 5 < 0 THEN SliceOutOfRange
            ELSE [field |-> SubSeq(l, 1, Len(l) - 5), order |-> DESC]
       ELSE IF HasSuffix(l, <<"a", "s", "c">>)
       THEN IF Len(l) - 4 < 0 THEN SliceOutOfRange
            ELSE [field |-> SubSeq(l, 1, Len(l) - 4), order |-> ASC]
       ELSE [field |-> l, order |-> ASC]

\* field names, and the documented forms of an input for field name f
FieldNames == {s \in StringsUpTo(MaxFieldLen) : s # <<>> /\ \A i \in 1..Len(s) : s[i] \notin {"_", " "}}
AscForms(f) ==
    {f} \cup {f \o sep \o dir : sep \in {<<"_">>, <<" ">>},
                                 dir \in {<<"a", "s", "c">>, <<"A", "S", "C">>, <<"A", "s", "c">>}}
DescForms(f) ==
    {f \o sep \o dir : sep \in {<<"_">>, <<" ">>},
                       dir \in {<<"d", "e", "s", "c">>, <<"D", "E", "S", "C">>, <<"D", "e", "s", "c">>}}
\* the inputs: every short string and every documented form of a field name
OrderInputs ==
    StringsUpTo(MaxStrLen) \cup UNION {AscForms(f) \cup DescForms(f) : f \in FieldNames}

\* the coordinator before any call, with the goroutines of G
InitTx(G) ==
    /\ wrappers = <<>>
    /\ txs = <<>>
    /\ calls = <<>>
    /\ stack = [g \in G |-> <<>>]
    /\ cancelled = [g \in G |-> FALSE]
    /\ dbRegister = FALSE
    /\ got = NoGet
    /\ entering = [g \in G |-> NoEntry]
\* the registry before any call (line 123: an empty map)
InitTm ==
    /\ tmMap = [k \in {} |-> NilTm]
    /\ mutex = 0
    /\ managers = <<>>
    /\ newTm = [p \in TmProcs |-> IdleTm]
    /\ tmRets = {}
\* the logger after the package's init()
InitLog ==
    /\ log = StartLogger
    /\ once = [done |-> FALSE, m |-> 0]
    /\ initCalls = [p \in LogProcs |-> IdleInit]
    /\ inits = {}

Init ==
    /\ InitTx({1})
    /\ InitTm
    /\ InitLog
    /\ str = <<>>
    /\ option = NotParsed

(* ----------------------------- actions -------------------------------- *)

\* lines 189-196: a transaction is begun on the connection for the call of
\* goroutine g with context ctx; a new wrapper goes into a derived context
BeginTx(g, ctx) ==
    LET c == Len(calls) + 1
        tx == Len(txs) + 1
        w == Len(wrappers) + 1
    IN /\ wrappers' = Append(wrappers, NewWrapper(tx))
       /\ txs' = Append(txs, [by |-> c, wrapper |-> w, ctxDoneAtBegin |-> cancelled[g], ops |-> <<>>])
       /\ calls' = Append(calls, NewCall(g, ctx, w, TRUE, tx))
       /\ stack' = [stack EXCEPT ![g] = Append(stack[g], c)]

\* lines 184-196: no usable wrapper; getDb succeeds, a transaction is begun on
\* the connection, a new wrapper is put into a derived context
TransactionBegin(g, ctx) ==
    /\ CanCall(g)
    /\ NeedsNewTx(getDbWrapper(ctx))
    /\ ~Registering
    /\ BeginTx(g, ctx)
    /\ dbRegister' = TRUE
    /\ UNCHANGED cancelled
    /\ UNCHANGED <<got, entering, tmVars, logVars, orderVars>>

\* line 187 with src/db.go 41-44 and 64-67: while the connection is not yet
\* registered, obtaining it can panic (no service config, or gorm.Open fails);
\* no recover is installed yet, so the panic leaves Transaction
TransactionGetDbPanics(g, ctx) ==
    /\ CanCall(g)
    /\ NeedsNewTx(getDbWrapper(ctx))
    /\ ~Registering
    /\ GetDBCanPanic
    /\ calls' = Append(calls, EndedCall(g, ctx, getDbWrapper(ctx), "panicked", "getDbPanic", NoErr))
    /\ UNCHANGED <<wrappers, txs, stack, cancelled, dbRegister>>
    /\ UNCHANGED <<got, entering, tmVars, logVars, orderVars>>

\* lines 200-203: the wrapper already carries an error
TransactionAlreadyFailed(g, ctx) ==
    /\ CanCall(g)
    /\ ~NeedsNewTx(getDbWrapper(ctx))
    /\ wrappers[getDbWrapper(ctx)].err # NoErr
    /\ calls' = Append(calls, EndedCall(g, ctx, getDbWrapper(ctx), "returned", "alreadyFailed",
                                        AlreadyFailedErr(wrappers[getDbWrapper(ctx)].err)))
    /\ UNCHANGED <<wrappers, txs, stack, cancelled, dbRegister>>
    /\ UNCHANGED <<got, entering, tmVars, logVars, orderVars>>

\* lines 200-209 with the transaction already open: the call joins it
TransactionJoin(g, ctx) ==
    /\ CanCall(g)
    /\ ~NeedsNewTx(getDbWrapper(ctx))
    /\ wrappers[getDbWrapper(ctx)].err = NoErr
    /\ wrappers[getDbWrapper(ctx)].inTransaction
    /\ LET c == Len(calls) + 1
           w == getDbWrapper(ctx)
       IN /\ calls' = Append(calls, [NewCall(g, ctx, w, FALSE, wrappers[w].db) EXCEPT !.ctx = ctx])
          /\ stack' = [stack EXCEPT ![g] = Append(stack[g], c)]
    /\ UNCHANGED <<wrappers, txs, cancelled, dbRegister>>
    /\ UNCHANGED <<got, entering, tmVars, logVars, orderVars>>

\* lines 231-234: the context is done before the callback is invoked
PreCheckCancelled(g) ==
    /\ stack[g] # <<>>
    /\ calls[Top(g)].pc = "precheck"
    /\ CtxDone(g)
    /\ calls' = Return(Top(g), "preCancel", NilRes, CtxErr)
    /\ stack' = Pop(g)
    /\ UNCHANGED <<wrappers, txs, cancelled, dbRegister>>
    /\ UNCHANGED <<got, entering, tmVars, logVars, orderVars>>

\* line 235: doTransaction(ctx) is invoked
InvokeCallback(g) ==
    /\ stack[g] # <<>>
    /\ calls[Top(g)].pc = "precheck"
    /\ ~CtxDone(g)
    /\ calls' = [calls EXCEPT ![Top(g)].pc = "callback", ![Top(g)].cbInvoked = TRUE]
    /\ UNCHANGED <<wrappers, txs, stack, cancelled, dbRegister>>
    /\ UNCHANGED <<got, entering, tmVars, logVars, orderVars>>

\* lines 235-239: the callback returns (data, e)
CallbackReturn(g, data, e) ==
    /\ Idle(g)
    /\ stack[g] # <<>>
    /\ calls[Top(g)].pc = "callback"
    /\ e \in CallbackErrs(Top(g))
    /\ LET c == Top(g)
           w == calls[c].wrapper
       IN /\ calls' = [calls EXCEPT ![c].pc = "postcheck", ![c].returnData = data, ![c].bizErr = e]
          /\ wrappers' = [wrappers EXCEPT ![w].err = StickyAfterCallback(wrappers[w].err, e)]
    /\ UNCHANGED <<txs, stack, cancelled, dbRegister>>
    /\ UNCHANGED <<got, entering, tmVars, logVars, orderVars>>

\* lines 211-229: the callback panics with value r; the deferred function
\* recovers, records the error and, in the owning call, rolls back and resets
\* (the result of that Rollback() only goes to the log)
CallbackPanic(g, r) ==
    /\ Idle(g)
    /\ stack[g] # <<>>
    /\ calls[Top(g)].pc = "callback"
    /\ LET c == Top(g)
           w == calls[c].wrapper
           e == RecoverErr(r)
       IN IF ~RecoverRollsBack(calls[c].txOpenByMe)
          THEN /\ calls' = [Return(c, "recover", NilRes, e) EXCEPT ![c].panic = r]
               /\ wrappers' = [wrappers EXCEPT ![w].err = e]
               /\ txs' = txs
          ELSE IF wrappers[w].db # NilDb
          THEN /\ calls' = [Return(c, "recover", NilRes, e) EXCEPT ![c].panic = r]
               /\ txs' = Issue(wrappers[w].db, "rollback", c)
               /\ wrappers' = [wrappers EXCEPT ![w] = reset(w)]
          ELSE \* line 223 through a nil handle panics inside the deferred function
               /\ calls' = [Escape(c, "recover") EXCEPT ![c].panic = r]
               /\ wrappers' = [wrappers EXCEPT ![w].err = e]
               /\ txs' = txs
    /\ stack' = Pop(g)
    /\ UNCHANGED <<cancelled, dbRegister>>
    /\ UNCHANGED <<got, entering, tmVars, logVars, orderVars>>

\* lines 240-243: the context is done after the callback returned
PostCheckCancelled(g) ==
    /\ stack[g] # <<>>
    /\ calls[Top(g)].pc = "postcheck"
    /\ CtxDone(g)
    /\ calls' = [Return(Top(g), "postCancel", NilRes, CtxErr) EXCEPT ![Top(g)].doneAtPost = cancelled[g]]
    /\ stack' = Pop(g)
    /\ UNCHANGED <<wrappers, txs, cancelled, dbRegister>>
    /\ UNCHANGED <<got, entering, tmVars, logVars, orderVars>>

\* lines 240, 244: the context is live and this call opened the transaction
PostCheckOwner(g) ==
    /\ stack[g] # <<>>
    /\ calls[Top(g)].pc = "postcheck"
    /\ ~CtxDone(g)
    /\ Resolves(calls[Top(g)].txOpenByMe)
    /\ calls' = [calls EXCEPT ![Top(g)].pc = "resolve", ![Top(g)].doneAtPost = cancelled[g]]
    /\ UNCHANGED <<wrappers, txs, stack, cancelled, dbRegister>>
    /\ UNCHANGED <<got, entering, tmVars, logVars, orderVars>>

\* lines 240, 244, 270: the context is live and this call joined a
\* transaction: it returns what the callback returned
ReturnJoined(g) ==
    /\ stack[g] # <<>>
    /\ calls[Top(g)].pc = "postcheck"
    /\ ~CtxDone(g)
    /\ ~Resolves(calls[Top(g)].txOpenByMe)
    /\ calls' = [Return(Top(g), "joined", calls[Top(g)].returnData,
                         JoinedErr(calls[Top(g)].bizErr, wrappers[calls[Top(g)].wrapper].err))
                 EXCEPT ![Top(g)].doneAtPost = cancelled[g]]
    /\ stack' = Pop(g)
    /\ UNCHANGED <<wrappers, txs, cancelled, dbRegister>>
    /\ UNCHANGED <<got, entering, tmVars, logVars, orderVars>>

\* lines 245-267: the owning call rolls back or commits, then resets the
\* wrapper (deferred at line 245) and returns
Resolve(g, opFailed) ==
    /\ stack[g] # <<>>
    /\ calls[Top(g)].pc = "resolve"
    /\ LET c == Top(g)
           w == calls[c].wrapper
           ops == ResolutionOps(calls[c].bizErr, wrappers[w].err)
       IN IF wrappers[w].db # NilDb
          THEN /\ txs' = IssueAll(wrappers[w].db, ops, c)
               /\ calls' = [Return(c, ops[Len(ops)], calls[c].returnData,
                                   ResolutionErr(calls[c].bizErr, wrappers[w].err, opFailed))
                            EXCEPT ![c].opFailed = opFailed]
               /\ wrappers' = [wrappers EXCEPT ![w] = reset(w)]
          ELSE \* Rollback()/Commit() through a nil handle panics; the deferred
               \* reset runs, the recover records the error and panics again
               \* at line 223
               /\ ~opFailed
               /\ txs' = txs
               /\ calls' = Escape(c, "nilDeref")
               /\ wrappers' = [wrappers EXCEPT ![w] = [reset(w) EXCEPT !.err = NilDeref]]
    /\ stack' = Pop(g)
    /\ UNCHANGED <<cancelled, dbRegister>>
    /\ UNCHANGED <<got, entering, tmVars, logVars, orderVars>>

\* the request's context is cancelled or its deadline passes
Cancel(g) ==
    /\ ~cancelled[g]
    /\ cancelled' = [cancelled EXCEPT ![g] = TRUE]
    /\ UNCHANGED <<wrappers, txs, calls, stack, dbRegister>>
    /\ UNCHANGED <<got, entering, tmVars, logVars, orderVars>>

Next ==
    \/ \E g \in Goroutines : \E ctx \in CtxChoices(g) : TransactionBegin(g, ctx)
    \/ \E g \in Goroutines : \E ctx \in CtxChoices(g) : TransactionGetDbPanics(g, ctx)
    \/ \E g \in Goroutines : \E ctx \in CtxChoices(g) : TransactionAlreadyFailed(g, ctx)
    \/ \E g \in Goroutines : \E ctx \in CtxChoices(g) : TransactionJoin(g, ctx)
    \/ \E g \in Goroutines : PreCheckCancelled(g)
    \/ \E g \in Goroutines : InvokeCallback(g)
    \/ \E g \in Goroutines : \E data \in Data :
          \E e \in {NoErr} \cup {BizErr(k) : k \in 1..Len(calls)} \cup {calls[k].err : k \in 1..Len(calls)} :
             CallbackReturn(g, data, e)
    \/ \E g \in Goroutines : \E r \in PanicValues : CallbackPanic(g, r)
    \/ \E g \in Goroutines : PostCheckCancelled(g)
    \/ \E g \in Goroutines : PostCheckOwner(g)
    \/ \E g \in Goroutines : ReturnJoined(g)
    \/ \E g \in Goroutines : \E opFailed \in BOOLEAN : Resolve(g, opFailed)
    \/ \E g \in Goroutines : Cancel(g)

Spec == Init /\ [][Next]_vars

(* ------------------------------- GetDb -------------------------------- *)

\* the contexts code on goroutine g may hold: the request's own context and
\* the context given to any callback that was invoked on g, also after the
\* call is over
CtxAll(g) ==
    {NoWrapper} \cup {calls[c].ctx : c \in {k \in 1..Len(calls) : calls[k].g = g /\ calls[k].cbInvoked}}

\* code on goroutine g is running: outside Transaction or inside a callback
CanGetDb(g) == Idle(g) /\ (stack[g] # <<>> => calls[Top(g)].pc = "callback")

\* the record of a GetDb call on goroutine g
GetDbCall(g, ctx, source, exit, db) ==
    [ctx |-> ctx,
     in |-> IF stack[g] = <<>> THEN 0 ELSE Top(g),  \* the callback it was called from
     seen |-> IF getDbWrapper(ctx) = NoWrapper THEN NilDb ELSE wrappers[getDbWrapper(ctx)].db,
     source |-> source,                             \* what the connection source did
     exit |-> exit, db |-> db]

\* lines 156-163: GetDb returns the handle of the context's wrapper or, when
\* there is none, the connection obtained from the source
GetDb(g, ctx) ==
    /\ CanGetDb(g)
    /\ LET w == getDbWrapper(ctx)
       IN IF HasHandle(w)
          THEN /\ got' = GetDbCall(g, ctx, "none", "returned", wrappers[w].db)
               /\ wrappers' = wrappers
               /\ dbRegister' = dbRegister
          ELSE /\ got' = GetDbCall(g, ctx, "ok", "returned", Conn)
               /\ wrappers' = WrappersAfterGetDb(w, Conn)
               /\ dbRegister' = TRUE
    /\ UNCHANGED <<txs, calls, stack, cancelled, entering, tmVars, logVars, orderVars>>

\* line 161 with src/db.go 41-44 and 64-67: the source cannot provide the
\* connection and panics; GetDb has no recover
GetDbPanics(g, ctx) ==
    /\ CanGetDb(g)
    /\ ~HasHandle(getDbWrapper(ctx))
    /\ GetDBCanPanic
    /\ got' = GetDbCall(g, ctx, "failed", "panicked", NilDb)
    /\ UNCHANGED <<txVars, tmVars, logVars, orderVars>>

NextGetDb ==
    \/ \E g \in Goroutines : \E ctx \in CtxAll(g) : TransactionBegin(g, ctx)
    \/ \E g \in Goroutines : \E ctx \in CtxAll(g) : TransactionGetDbPanics(g, ctx)
    \/ \E g \in Goroutines : \E ctx \in CtxAll(g) : TransactionAlreadyFailed(g, ctx)
    \/ \E g \in Goroutines : \E ctx \in CtxAll(g) : TransactionJoin(g, ctx)
    \/ \E g \in Goroutines : PreCheckCancelled(g)
    \/ \E g \in Goroutines : InvokeCallback(g)
    \/ \E g \in Goroutines : \E data \in Data :
          \E e \in {NoErr} \cup {BizErr(k) : k \in 1..Len(calls)} \cup {calls[k].err : k \in 1..Len(calls)} :
             CallbackReturn(g, data, e)
    \/ \E g \in Goroutines : \E r \in PanicValues : CallbackPanic(g, r)
    \/ \E g \in Goroutines : PostCheckCancelled(g)
    \/ \E g \in Goroutines : PostCheckOwner(g)
    \/ \E g \in Goroutines : ReturnJoined(g)
    \/ \E g \in Goroutines : \E opFailed \in BOOLEAN : Resolve(g, opFailed)
    \/ \E g \in Goroutines : Cancel(g)
    \/ \E g \in Goroutines : \E ctx \in CtxAll(g) : GetDb(g, ctx)
    \/ \E g \in Goroutines : \E ctx \in CtxAll(g) : GetDbPanics(g, ctx)

SpecGetDb == Init /\ [][NextGetDb]_vars

(* ----------------------- NewTransactionManager ------------------------ *)

\* goroutine p calls NewTransactionManager(pair.serviceName, pair.database)
TmCall(p, pair) ==
    /\ ~Crashed
    /\ newTm[p].pc = "idle"
    /\ newTm[p].n < MaxTmCalls
    /\ newTm' = [newTm EXCEPT ![p].pc = "check", ![p].pair = pair]
    /\ UNCHANGED <<txVars, got, tmMap, mutex, managers, tmRets>>
    /\ UNCHANGED <<logVars, orderVars>>

\* lines 129-131 with no assignment in progress: the key is found
TmFastHit(p) ==
    /\ ~Crashed
    /\ newTm[p].pc = "check"
    /\ \A q \in TmProcs : ~Storing(q)
    /\ mapKey(newTm[p].pair) \in DOMAIN tmMap
    /\ ReturnTm(p, tmMap[mapKey(newTm[p].pair)])
    /\ UNCHANGED <<txVars, got, tmMap, mutex, managers>>
    /\ UNCHANGED <<logVars, orderVars>>

\* line 129 with no assignment in progress: the key is not found
TmFastMiss(p) ==
    /\ ~Crashed
    /\ newTm[p].pc = "check"
    /\ \A q \in TmProcs : ~Storing(q)
    /\ mapKey(newTm[p].pair) \notin DOMAIN tmMap
    /\ newTm' = [newTm EXCEPT ![p].pc = "lock"]
    /\ UNCHANGED <<txVars, got, tmMap, mutex, managers, tmRets>>
    /\ UNCHANGED <<logVars, orderVars>>

\* line 129 while another goroutine is inside the assignment of line 144:
\* an unsynchronised read of a map that is being written
TmRacyRead(p, outcome) ==
    /\ ~Crashed
    /\ newTm[p].pc = "check"
    /\ \E q \in TmProcs : Storing(q)
    /\ outcome \in RacyOutcomes(p)
    /\ IF outcome = "fatal"
       THEN newTm' = [newTm EXCEPT ![p].pc = "fatal"] /\ tmRets' = tmRets
       ELSE IF outcome = "miss"
       THEN newTm' = [newTm EXCEPT ![p].pc = "lock"] /\ tmRets' = tmRets
       ELSE IF outcome = "nil"
       THEN ReturnTm(p, NilTm)
       ELSE ReturnTm(p, tmMap[mapKey(newTm[p].pair)])
    /\ UNCHANGED <<txVars, got, tmMap, mutex, managers>>
    /\ UNCHANGED <<logVars, orderVars>>

\* line 132: mutex.Lock()
TmLock(p) ==
    /\ ~Crashed
    /\ newTm[p].pc = "lock"
    /\ mutex = 0
    /\ mutex' = p
    /\ newTm' = [newTm EXCEPT ![p].pc = "recheck"]
    /\ UNCHANGED <<txVars, got, tmMap, managers, tmRets>>
    /\ UNCHANGED <<logVars, orderVars>>

\* lines 135-137: under the lock the key is found; the deferred Unlock runs
TmRecheckHit(p) ==
    /\ ~Crashed
    /\ newTm[p].pc = "recheck"
    /\ mapKey(newTm[p].pair) \in DOMAIN tmMap
    /\ ReturnTm(p, tmMap[mapKey(newTm[p].pair)])
    /\ mutex' = 0
    /\ UNCHANGED <<txVars, got, tmMap, managers>>
    /\ UNCHANGED <<logVars, orderVars>>

\* lines 135-144: under the lock the key is not found; the manager is
\* constructed and its assignment to the map starts
TmConstruct(p) ==
    /\ ~Crashed
    /\ newTm[p].pc = "recheck"
    /\ mapKey(newTm[p].pair) \notin DOMAIN tmMap
    /\ managers' = Append(managers, newTransactionManager(newTm[p].pair))
    /\ newTm' = [newTm EXCEPT ![p].pc = "storing", ![p].tm = Len(managers) + 1]
    /\ UNCHANGED <<txVars, got, tmMap, mutex, tmRets>>
    /\ UNCHANGED <<logVars, orderVars>>

\* lines 144-146: the assignment completes, the manager is returned and the
\* deferred Unlock runs
TmStore(p) ==
    /\ ~Crashed
    /\ newTm[p].pc = "storing"
    /\ tmMap' = [k \in DOMAIN tmMap \cup {mapKey(newTm[p].pair)} |->
                    IF k = mapKey(newTm[p].pair) THEN newTm[p].tm ELSE tmMap[k]]
    /\ ReturnTm(p, newTm[p].tm)
    /\ mutex' = 0
    /\ UNCHANGED <<txVars, got, managers>>
    /\ UNCHANGED <<logVars, orderVars>>

NextTM ==
    \/ \E p \in TmProcs : \E pair \in Pairs : TmCall(p, pair)
    \/ \E p \in TmProcs : TmFastHit(p)
    \/ \E p \in TmProcs : TmFastMiss(p)
    \/ \E p \in TmProcs : \E outcome \in {"fatal", "miss", "nil", "hit"} : TmRacyRead(p, outcome)
    \/ \E p \in TmProcs : TmLock(p)
    \/ \E p \in TmProcs : TmRecheckHit(p)
    \/ \E p \in TmProcs : TmConstruct(p)
    \/ \E p \in TmProcs : TmStore(p)

SpecTM == Init /\ [][NextTM]_vars

(* -------------- Transaction calls on several goroutines --------------- *)

\* goroutines that call Transaction: requests served side by side, or a
\* goroutine started by a callback and given the callback's context
ConcGoroutines == 2

\* the runtime has thrown a fatal error: no goroutine runs any more
Dead == [phase |-> "dead", ctx |-> NoWrapper, db |-> NilDb]

\* the contexts code on goroutine g can pass to Transaction: those of
\* CtxChoices(g), and the context of any callback invoked on another
\* goroutine, which a goroutine started by that callback keeps for as long as
\* it runs
CtxConc(g) ==
    CtxChoices(g) \cup
    {calls[c].ctx : c \in {k \in 1..Len(calls) : calls[k].g # g /\ calls[k].cbInvoked}}

\* mutant: the begin in place does not set the flag of line 206
BegunInPlace_FlagNotSet(w, tx) == [wrappers[w] EXCEPT !.db = tx]
\* lines 205-206: the wrapper after a begin in place that returned handle tx
BegunInPlace(w, tx) == [wrappers[w] EXCEPT !.db = tx, !.inTransaction = TRUE]

\* lines 184-186: the wrapper of the context has a handle; the call goes on
\* to lines 200-209 with the handle it has read
TransactionEnter(g, ctx) ==
    /\ CanCall(g)
    /\ ~NeedsNewTx(getDbWrapper(ctx))
    /\ entering' = [entering EXCEPT ![g] =
                       [phase |-> "checked", ctx |-> ctx, db |-> wrappers[getDbWrapper(ctx)].db]]
    /\ UNCHANGED <<wrappers, txs, calls, stack, cancelled, dbRegister>>
    /\ UNCHANGED <<got, tmVars, logVars, orderVars>>

\* lines 200-203 read after line 186: the wrapper carries an error by now
EnteredAlreadyFailed(g) ==
    /\ entering[g].phase = "checked"
    /\ LET ctx == entering[g].ctx
           w == getDbWrapper(ctx)
       IN /\ wrappers[w].err # NoErr
          /\ calls' = Append(calls, EndedCall(g, ctx, w, "returned", "alreadyFailed",
                                              AlreadyFailedErr(wrappers[w].err)))
    /\ entering' = [entering EXCEPT ![g] = NoEntry]
    /\ UNCHANGED <<wrappers, txs, stack, cancelled, dbRegister>>
    /\ UNCHANGED <<got, tmVars, logVars, orderVars>>

\* lines 200-209 read after line 186: no error, the transaction is open: the
\* call joins it
EnteredJoin(g) ==
    /\ entering[g].phase = "checked"
    /\ LET ctx == entering[g].ctx
           w == getDbWrapper(ctx)
           c == Len(calls) + 1
       IN /\ wrappers[w].err = NoErr
          /\ wrappers[w].inTransaction
          /\ calls' = Append(calls, [NewCall(g, ctx, w, FALSE, wrappers[w].db) EXCEPT !.ctx = ctx])
          /\ stack' = [stack EXCEPT ![g] = Append(stack[g], c)]
    /\ entering' = [entering EXCEPT ![g] = NoEntry]
    /\ UNCHANGED <<wrappers, txs, cancelled, dbRegister>>
    /\ UNCHANGED <<got, tmVars, logVars, orderVars>>

\* lines 204-208 read after line 186: no error and no open transaction (the
\* owner has reset the wrapper since line 186): BeginTx is called on the
\* handle read at line 186, which the compiled code still holds; the handle
\* it returns is stored in the same wrapper, the flag is set, the call owns
EnteredBeginInPlace(g) ==
    /\ entering[g].phase = "checked"
    /\ LET ctx == entering[g].ctx
           w == getDbWrapper(ctx)
           c == Len(calls) + 1
           tx == Len(txs) + 1
       IN /\ wrappers[w].err = NoErr
          /\ ~wrappers[w].inTransaction
          /\ entering[g].db # NilDb
          /\ txs' = Append(txs, [by |-> c, wrapper |-> w, ctxDoneAtBegin |-> cancelled[g], ops |-> <<>>])
          /\ wrappers' = [wrappers EXCEPT ![w] = BegunInPlace(w, tx)]
          /\ calls' = Append(calls, [NewCall(g, ctx, w, TRUE, tx) EXCEPT !.ctx = ctx])
          /\ stack' = [stack EXCEPT ![g] = Append(stack[g], c)]
    /\ entering' = [entering EXCEPT ![g] = NoEntry]
    /\ UNCHANGED <<cancelled, dbRegister>>
    /\ UNCHANGED <<got, tmVars, logVars, orderVars>>

\* lines 204-205 when the compiled code reads wrapper.db again at line 205:
\* the handle is nil by now, BeginTx through it panics, and no recover is
\* installed yet
EnteredBeginInPlacePanics(g) ==
    /\ entering[g].phase = "checked"
    /\ LET ctx == entering[g].ctx
           w == getDbWrapper(ctx)
       IN /\ wrappers[w].err = NoErr
          /\ ~wrappers[w].inTransaction
          /\ wrappers[w].db = NilDb
          /\ calls' = Append(calls, EndedCall(g, ctx, w, "panicked", "nilDeref", NoErr))
    /\ entering' = [entering EXCEPT ![g] = NoEntry]
    /\ UNCHANGED <<wrappers, txs, stack, cancelled, dbRegister>>
    /\ UNCHANGED <<got, tmVars, logVars, orderVars>>

\* line 187 with src/db.go 34-51: the connection is not registered; the call
\* takes the lock, connects and stands at the map assignment of line 51
GetDBRegisters(g, ctx) ==
    /\ CanCall(g)
    /\ NeedsNewTx(getDbWrapper(ctx))
    /\ ~dbRegister
    /\ ~Registering
    /\ entering' = [entering EXCEPT ![g] = [phase |-> "registering", ctx |-> ctx, db |-> NilDb]]
    /\ UNCHANGED <<wrappers, txs, calls, stack, cancelled, dbRegister>>
    /\ UNCHANGED <<got, tmVars, logVars, orderVars>>

\* src/db.go 51-54 and lines 189-196: the assignment completes, the
\* connection is returned and the transaction is begun on it
TransactionBeginRegistered(g) ==
    /\ entering[g].phase = "registering"
    /\ BeginTx(g, entering[g].ctx)
    /\ dbRegister' = TRUE
    /\ entering' = [entering EXCEPT ![g] = NoEntry]
    /\ UNCHANGED cancelled
    /\ UNCHANGED <<got, tmVars, logVars, orderVars>>

\* line 187 with src/db.go 34, 54 and 59 while another goroutine is inside
\* the map assignment of src/db.go 51: the unlocked reads of the map race
\* with the write. Either the runtime detects it and throws ("concurrent map
\* read and map write"), which ends the process, or line 34 finds the key and
\* line 54 returns the value not yet stored, a nil *DBInfo, whose Conn field
\* line 59 reads: a nil dereference that leaves Transaction as a panic. (A
\* read that misses the key makes the call wait for the lock: that call
\* begins after the registration, as TransactionBegin.)
TransactionGetDbRaces(g, ctx, outcome) ==
    /\ CanCall(g)
    /\ NeedsNewTx(getDbWrapper(ctx))
    /\ \E q \in Goroutines \ {g} : entering[q].phase = "registering"
    /\ IF outcome = "fatal"
       THEN /\ calls' = Append(calls, EndedCall(g, ctx, getDbWrapper(ctx), "panicked", "fatal", NoErr))
            /\ stack' = [q \in Goroutines |-> <<>>]
            /\ entering' = [q \in Goroutines |-> Dead]
       ELSE /\ calls' = Append(calls, EndedCall(g, ctx, getDbWrapper(ctx), "panicked", "nilDBInfo", NoErr))
            /\ UNCHANGED <<stack, entering>>
    /\ UNCHANGED <<wrappers, txs, cancelled, dbRegister>>
    /\ UNCHANGED <<got, tmVars, logVars, orderVars>>

InitConc ==
    /\ InitTx(1..ConcGoroutines)
    /\ InitTm
    /\ InitLog
    /\ str = <<>>
    /\ option = NotParsed

NextConc ==
    \/ \E g \in Goroutines : \E ctx \in CtxConc(g) : TransactionBegin(g, ctx)
    \/ \E g \in Goroutines : \E ctx \in CtxConc(g) : TransactionGetDbPanics(g, ctx)
    \/ \E g \in Goroutines : \E ctx \in CtxConc(g) : GetDBRegisters(g, ctx)
    \/ \E g \in Goroutines : TransactionBeginRegistered(g)
    \/ \E g \in Goroutines : \E ctx \in CtxConc(g) : \E outcome \in {"fatal", "nil"} :
          TransactionGetDbRaces(g, ctx, outcome)
    \/ \E g \in Goroutines : \E ctx \in CtxConc(g) : TransactionEnter(g, ctx)
    \/ \E g \in Goroutines : EnteredAlreadyFailed(g)
    \/ \E g \in Goroutines : EnteredJoin(g)
    \/ \E g \in Goroutines : EnteredBeginInPlace(g)
    \/ \E g \in Goroutines : EnteredBeginInPlacePanics(g)
    \/ \E g \in Goroutines : PreCheckCancelled(g)
    \/ \E g \in Goroutines : InvokeCallback(g)
    \/ \E g \in Goroutines : \E data \in Data :
          \E e \in {NoErr} \cup {BizErr(k) : k \in 1..Len(calls)} \cup {calls[k].err : k \in 1..Len(calls)} :
             CallbackReturn(g, data, e)
    \/ \E g \in Goroutines : \E r \in PanicValues : CallbackPanic(g, r)
    \/ \E g \in Goroutines : PostCheckCancelled(g)
    \/ \E g \in Goroutines : PostCheckOwner(g)
    \/ \E g \in Goroutines : ReturnJoined(g)
    \/ \E g \in Goroutines : \E opFailed \in BOOLEAN : Resolve(g, opFailed)
    \/ \E g \in Goroutines : Cancel(g)

SpecConc == InitConc /\ [][NextConc]_vars

(* ----------------------------- logger.Init ---------------------------- *)

\* goroutine p calls Init(fn, level, app)
InitCall(p, fn, level, app) ==
    /\ initCalls[p].pc = "idle"
    /\ Cardinality(inits) + Cardinality({q \in LogProcs : initCalls[q].pc # "idle"}) < MaxInitCalls
    /\ initCalls' = [initCalls EXCEPT ![p] = [pc |-> "do", fn |-> fn, level |-> level, app |-> app,
                                              late |-> inits # {}, n |-> initCalls[p].n]]
    /\ UNCHANGED <<log, once, inits>>
    /\ UNCHANGED <<txVars, got, tmVars, orderVars>>

\* once.Do finds the Once done and returns
OnceFastPath(p) ==
    /\ initCalls[p].pc = "do"
    /\ onceDone(once)
    /\ ReturnInit(p, FALSE)
    /\ UNCHANGED <<log, once>>
    /\ UNCHANGED <<txVars, got, tmVars, orderVars>>

\* once.Do finds the Once not done and goes for its mutex
OnceSlowPath(p) ==
    /\ initCalls[p].pc = "do"
    /\ ~onceDone(once)
    /\ initCalls' = [initCalls EXCEPT ![p].pc = "lock"]
    /\ UNCHANGED <<log, once, inits>>
    /\ UNCHANGED <<txVars, got, tmVars, orderVars>>

\* the mutex of the Once is acquired
OnceLock(p) ==
    /\ initCalls[p].pc = "lock"
    /\ once.m = 0
    /\ once' = [once EXCEPT !.m = p]
    /\ initCalls' = [initCalls EXCEPT ![p].pc = "locked"]
    /\ UNCHANGED <<log, inits>>
    /\ UNCHANGED <<txVars, got, tmVars, orderVars>>

\* under the mutex the Once is found done: unlock and return
OnceRecheckDone(p) ==
    /\ initCalls[p].pc = "locked"
    /\ onceDone(once)
    /\ once' = [once EXCEPT !.m = 0]
    /\ ReturnInit(p, FALSE)
    /\ UNCHANGED log
    /\ UNCHANGED <<txVars, got, tmVars, orderVars>>

\* line 43 with 46-83: under the mutex the Once is not done: initHelper runs
\* and stores the new logger
OnceRun(p) ==
    /\ initCalls[p].pc = "locked"
    /\ ~onceDone(once)
    /\ log' = initHelper(initCalls[p].fn, initCalls[p].level, initCalls[p].app)
    /\ initCalls' = [initCalls EXCEPT ![p].pc = "ran"]
    /\ UNCHANGED <<once, inits>>
    /\ UNCHANGED <<txVars, got, tmVars, orderVars>>

\* the Once is marked done after its function returned
OnceDone(p) ==
    /\ initCalls[p].pc = "ran"
    /\ once' = [once EXCEPT !.done = TRUE]
    /\ initCalls' = [initCalls EXCEPT ![p].pc = "unlock"]
    /\ UNCHANGED <<log, inits>>
    /\ UNCHANGED <<txVars, got, tmVars, orderVars>>

\* the mutex is released and Init returns
OnceUnlock(p) ==
    /\ initCalls[p].pc = "unlock"
    /\ once' = [once EXCEPT !.m = 0]
    /\ ReturnInit(p, TRUE)
    /\ UNCHANGED log
    /\ UNCHANGED <<txVars, got, tmVars, orderVars>>

NextLog ==
    \/ \E p \in LogProcs : \E fn \in FileNames : \E level \in LevelNames : \E app \in AppNames :
          InitCall(p, fn, level, app)
    \/ \E p \in LogProcs : OnceFastPath(p)
    \/ \E p \in LogProcs : OnceSlowPath(p)
    \/ \E p \in LogProcs : OnceLock(p)
    \/ \E p \in LogProcs : OnceRecheckDone(p)
    \/ \E p \in LogProcs : OnceRun(p)
    \/ \E p \in LogProcs : OnceDone(p)
    \/ \E p \in LogProcs : OnceUnlock(p)

SpecLog == Init /\ [][NextLog]_vars

(* --------------------------- ParseOrderOption ------------------------- *)

\* any of the inputs can be the string ParseOrderOption is called with
InitOrder ==
    /\ InitTx({1})
    /\ InitTm
    /\ InitLog
    /\ str \in OrderInputs
    /\ option = NotParsed

\* ParseOrderOption(str) is called
Parse ==
    /\ option = NotParsed
    /\ option' = ParseOrderOption(str)
    /\ UNCHANGED str
    /\ UNCHANGED <<txVars, got, tmVars, logVars>>

NextOrder ==
    \/ Parse

SpecOrder == InitOrder /\ [][NextOrder]_vars

(* ----------------------- vocabulary of the claims --------------------- *)

Calls == 1..Len(calls)
Txs == 1..Len(txs)

\* call c is over: it returned or a panic left it
Ended(c) == calls[c].pc = "done"
Returned(c) == calls[c].exit = "returned"

\* call a encloses call c: c was made, directly or not, from a's callback
RECURSIVE Encloses(_, _)
Encloses(a, c) ==
    IF calls[c].parent = 0 THEN FALSE
    ELSE calls[c].parent = a \/ Encloses(a, calls[c].parent)

\* the calls that began or joined transaction t, and those that joined it
OnTx(t) == {c \in Calls : calls[c].tx = t}
Joined(t) == OnTx(t) \ {txs[t].by}

\* the callback of c was invoked and returned normally / returned no error
CbReturned(c) ==
    calls[c].pc \in {"postcheck", "resolve"} \/
    calls[c].path \in {"postCancel", "joined", "rollback", "commit", "nilDeref"}
CbOk(c) == CbReturned(c) /\ calls[c].bizErr = NoErr
CbFailed(c) == CbReturned(c) /\ calls[c].bizErr # NoErr
CbPanicked(c) == calls[c].path = "recover"

\* the operations issued on transaction t
Commits(t) == {i \in 1..Len(txs[t].ops) : txs[t].ops[i].op = "commit"}
Rollbacks(t) == {i \in 1..Len(txs[t].ops) : txs[t].ops[i].op = "rollback"}
OneOpBy(t, op, c) == txs[t].ops = <<[op |-> op, by |-> c]>>

(* ------------------------------- claims ------------------------------- *)

\* C1: in a tree of Transaction calls on one transaction where every callback
\* returned no error, none panicked and the context was never cancelled, once
\* the owning call is over exactly one commit has been issued on the
\* transaction, by the owning call, which encloses every other call of the
\* tree, and no rollback has been issued.
C1_CleanTree(t) ==
    /\ Ended(txs[t].by)
    /\ ~cancelled[calls[txs[t].by].g]
    /\ \A c \in OnTx(t) : CbOk(c)
C1_SuccessfulTreeCommitsOnce ==
    \A t \in Txs :
        C1_CleanTree(t) =>
            /\ OneOpBy(t, "commit", txs[t].by)
            /\ Rollbacks(t) = {}
            /\ \A c \in Joined(t) : Encloses(txs[t].by, c)
C1_Witness ==
    \E t \in Txs :
        /\ C1_CleanTree(t)
        /\ \E c \in Joined(t) : \E d \in Joined(t) : Encloses(c, d)
        /\ OneOpBy(t, "commit", txs[t].by)

\* what call c recorded in the wrapper when its callback failed or panicked
Recorded(c) == IF CbPanicked(c) THEN calls[c].err ELSE calls[c].bizErr
Failing(c) == CbFailed(c) \/ CbPanicked(c)
\* the business errors returned by callbacks of the calls on transaction t
BizErrsOn(t) == {calls[c].bizErr : c \in {k \in OnTx(t) : CbFailed(k)}}
\* call c issued no commit and no rollback on any transaction
NoOpsBy(c) == \A t \in Txs : \A i \in 1..Len(txs[t].ops) : txs[t].ops[i].by # c

C2_Tree(t) ==
    /\ Ended(txs[t].by)
    /\ \E c \in OnTx(t) : CbFailed(c)
    /\ \A c \in OnTx(t) : ~CbPanicked(c)
    /\ ~calls[txs[t].by].doneAtPost
LastRecorder(t, n) ==
    CHOOSE a \in Joined(t) :
        /\ Failing(a) /\ (a = n \/ Encloses(a, n))
        /\ \A b \in Joined(t) : (Failing(b) /\ Encloses(b, n)) => (b = a \/ Encloses(a, b))

\* C3 as stated: when the callback of a joined call returned business error E
\* and the owning call's own callback returned no error, the owning call has
\* issued one rollback, no commit, and returned E.
C3_AsStated ==
    \A t \in Txs : \A n \in Joined(t) :
        (Ended(txs[t].by) /\ CbOk(txs[t].by) /\ CbFailed(n)) =>
            /\ OneOpBy(t, "rollback", txs[t].by)
            /\ calls[txs[t].by].err = calls[n].bizErr

\* C3 as amended: the same when the context was not done at the owning call's
\* re-check after its callback; the error returned is the sticky error, which
\* is E unless a joined call enclosing that one failed after it, and then the
\* error recorded by the outermost such call.
C3_Case(t, n) ==
    /\ Ended(txs[t].by) /\ CbOk(txs[t].by) /\ CbFailed(n)
    /\ ~calls[txs[t].by].doneAtPost
C3_SwallowedErrorRollsBack ==
    \A t \in Txs : \A n \in Joined(t) :
        C3_Case(t, n) =>
            /\ OneOpBy(t, "rollback", txs[t].by)
            /\ Commits(t) = {}
            /\ calls[txs[t].by].err = Recorded(LastRecorder(t, n))
            /\ (\A a \in Joined(t) : Encloses(a, n) => ~Failing(a)) =>
                   calls[txs[t].by].err = calls[n].bizErr
C3_Witness ==
    \E t \in Txs : \E n \in Joined(t) :
        /\ C3_Case(t, n)
        /\ \E a \in Joined(t) : Encloses(a, n) /\ CbOk(a)
        /\ calls[txs[t].by].err = calls[n].bizErr
        /\ OneOpBy(t, "rollback", txs[t].by)

\* the call that began the transaction a joined call n is on
OwnerOf(n) == txs[calls[n].tx].by
\* a joined call whose callback panicked
JoinedPanic(n) == calls[n].tx # 0 /\ ~calls[n].txOpenByMe /\ calls[n].panic # NoPanic
\* the error a recovered value r is turned into (r itself when it is an error)
Converted(r, e) == IF r.isErr THEN e = r.v ELSE e = <<"recover:">> \o r.v

\* C4 as stated: when the callback of a joined call panics, the call returns
\* (nil, the panic converted to an error), the wrapper's sticky error is set
\* for as long as the owning call runs, the joined call issues no rollback,
\* and the owning call, once over, has issued one rollback and no commit.
C4_AsStated ==
    \A n \in Calls :
        JoinedPanic(n) =>
            /\ Returned(n) /\ calls[n].res = NilRes /\ Converted(calls[n].panic, calls[n].err)
            /\ NoOpsBy(n)
            /\ ~Ended(OwnerOf(n)) => wrappers[calls[n].wrapper].err # NoErr
            /\ Ended(OwnerOf(n)) => OneOpBy(calls[n].tx, "rollback", OwnerOf(n))

\* C4 as amended: the same, but the owning call issues its one rollback unless
\* it found the context done at its re-check after the callback; then it has
\* issued nothing.  In no case is the transaction committed.
C4_NestedPanicRollsBack ==
    \A n \in Calls :
        JoinedPanic(n) =>
            /\ Returned(n) /\ calls[n].res = NilRes /\ Converted(calls[n].panic, calls[n].err)
            /\ NoOpsBy(n)
            /\ ~Ended(OwnerOf(n)) => wrappers[calls[n].wrapper].err # NoErr
            /\ Commits(calls[n].tx) = {}
            /\ Ended(OwnerOf(n)) =>
                   IF calls[OwnerOf(n)].doneAtPost
                   THEN txs[calls[n].tx].ops = <<>>
                   ELSE OneOpBy(calls[n].tx, "rollback", OwnerOf(n))
C4_Witness ==
    \E n \in Calls :
        /\ JoinedPanic(n) /\ ~calls[n].panic.isErr
        /\ Ended(OwnerOf(n)) /\ CbOk(OwnerOf(n))
        /\ OneOpBy(calls[n].tx, "rollback", OwnerOf(n))

\* errors.Unwrap(e) = inner
Wraps(e, inner) == Len(e) = Len(inner) + 1 /\ SubSeq(e, 2, Len(e)) = inner

\* C5: a step that enters Transaction with a context whose wrapper has a
\* handle and a sticky error adds a call that is over at once, returned
\* (nil, an error wrapping the sticky error) without invoking its callback,
\* and changes neither the wrapper nor any transaction (no begin, commit or
\* rollback) nor the stack of running calls.
C5_Entered(w) ==
    IF Len(calls') # Len(calls) + 1 THEN FALSE
    ELSE IF calls'[Len(calls')].ctx0 # w THEN FALSE
    ELSE wrappers[w].db # NilDb /\ wrappers[w].err # NoErr
C5_StickyErrorRefusesEntry ==
    [][\A w \in 1..Len(wrappers) :
          C5_Entered(w) =>
              /\ calls'[Len(calls')].pc = "done"
              /\ calls'[Len(calls')].exit = "returned"
              /\ ~calls'[Len(calls')].cbInvoked
              /\ calls'[Len(calls')].res = NilRes
              /\ Wraps(calls'[Len(calls')].err, wrappers[w].err)
              /\ wrappers' = wrappers /\ txs' = txs /\ stack' = stack]_vars
C5_Witness ==
    \E c \in Calls :
        /\ calls[c].path = "alreadyFailed"
        /\ calls[c].parent # 0 /\ calls[calls[c].parent].pc = "callback"
        /\ wrappers[calls[c].ctx0].err # NoErr

\* C6 as stated: a call whose context was already done when it was passed in,
\* or was found done at the check before the callback, has begun no
\* transaction and issued no commit and no rollback.
C6_AsStated ==
    \A c \in Calls :
        (calls[c].doneAtEntry \/ calls[c].path = "preCancel") =>
            /\ ~calls[c].txOpenByMe
            /\ NoOpsBy(c)

\* C6 as amended: such a call never invokes its callback and issues no commit
\* and no rollback; but when it was entered without a usable wrapper it has
\* begun a transaction before the check, and that transaction stays
\* unresolved and its wrapper is not reset.
C6_CancelledBeforeCallback ==
    \A c \in Calls :
        (calls[c].doneAtEntry \/ calls[c].path = "preCancel") =>
            /\ ~calls[c].cbInvoked
            /\ NoOpsBy(c)
            /\ Ended(c) => calls[c].path \in {"preCancel", "alreadyFailed", "getDbPanic"}
            /\ calls[c].path = "preCancel" => calls[c].res = NilRes /\ calls[c].err = CtxErr
            /\ (calls[c].ctx0 = NoWrapper /\ calls[c].path # "getDbPanic") => calls[c].txOpenByMe
            /\ calls[c].txOpenByMe =>
                  /\ txs[calls[c].tx].by = c
                  /\ txs[calls[c].tx].ops = <<>>
                  /\ wrappers[calls[c].wrapper] = NewWrapper(calls[c].tx)
C6_Witness ==
    \E c \in Calls :
        /\ calls[c].doneAtEntry /\ calls[c].path = "preCancel"
        /\ calls[c].txOpenByMe /\ txs[calls[c].tx].ops = <<>>

\* C7: a call that found the context done at its re-check after its callback
\* had returned (the context was cancelled while the callback ran) returned
\* (nil, the context's error) and issued no commit and no rollback, whatever
\* the callback returned; if it began the transaction, nothing was ever
\* issued on it.
C7_CancelledAfterCallback ==
    \A c \in Calls :
        calls[c].doneAtPost =>
            /\ Returned(c) /\ calls[c].path = "postCancel"
            /\ calls[c].res = NilRes /\ calls[c].err = CtxErr
            /\ NoOpsBy(c)
            /\ calls[c].txOpenByMe => txs[calls[c].tx].ops = <<>>
C7_Witness ==
    \E c \in Calls : \E d \in Calls :
        /\ calls[c].doneAtPost /\ calls[c].txOpenByMe /\ calls[c].bizErr = NoErr
        /\ calls[c].returnData # NilRes
        /\ calls[d].doneAtPost /\ calls[d].bizErr # NoErr

\* C8 as stated: once the call that began a transaction is over, exactly one
\* commit or rollback has been issued on it, by that call.
C8_AsStated ==
    \A t \in Txs :
        Ended(txs[t].by) => (Len(txs[t].ops) = 1 /\ txs[t].ops[1].by = txs[t].by)

\* C8 as amended: at most one commit or rollback is ever issued on a
\* transaction, and only by the call that began it; once that call is over it
\* has issued exactly one if its callback panicked or the context was live at
\* both checks, and none if it found the context done before or after its
\* callback.
C8_ResolvedAtMostOnce ==
    \A t \in Txs :
        /\ Len(txs[t].ops) <= 1
        /\ \A i \in 1..Len(txs[t].ops) : txs[t].ops[i].by = txs[t].by
        /\ Ended(txs[t].by) =>
              (Len(txs[t].ops) = 1 <=> calls[txs[t].by].path \notin {"preCancel", "postCancel"})
        /\ ~Ended(txs[t].by) => txs[t].ops = <<>>
C8_Witness ==
    \E t \in Txs : \E u \in Txs : \E v \in Txs :
        /\ Ended(txs[t].by) /\ calls[txs[t].by].path = "postCancel" /\ txs[t].ops = <<>>
        /\ Ended(txs[u].by) /\ calls[txs[u].by].path = "recover" /\ Len(txs[u].ops) = 1
        /\ Ended(txs[v].by) /\ calls[txs[v].by].path = "commit" /\ Len(txs[v].ops) = 1

\* C9: no transaction is ever committed twice, rolled back twice, or both
\* committed and rolled back.
C9_NoDoubleResolution ==
    \A t \in Txs :
        /\ Cardinality(Commits(t)) <= 1
        /\ Cardinality(Rollbacks(t)) <= 1
        /\ Commits(t) = {} \/ Rollbacks(t) = {}
C9_Witness ==
    \E t \in Txs :
        /\ Ended(txs[t].by) /\ Cardinality(Rollbacks(t)) = 1
        /\ \E c \in Joined(t) : CbPanicked(c)
        /\ \E c \in Joined(t) : CbFailed(c)

\* C10: every commit and rollback is issued by the call that began the
\* transaction; a call that joined it issues none and leaves the wrapper's
\* handle and transaction-open flag as they were, on every path: while the
\* owning call runs, the wrapper still carries the open transaction.
C10_JoinedNeverResolves ==
    /\ \A t \in Txs : \A i \in 1..Len(txs[t].ops) : txs[t].ops[i].by = txs[t].by
    /\ \A c \in Calls :
          (calls[c].tx # 0 /\ ~calls[c].txOpenByMe) =>
              /\ NoOpsBy(c)
              /\ ~Ended(OwnerOf(c)) =>
                    /\ wrappers[calls[c].wrapper].db = calls[c].tx
                    /\ wrappers[calls[c].wrapper].inTransaction
C10_Witness ==
    \E t \in Txs :
        /\ ~Ended(txs[t].by)
        /\ \E c \in Joined(t) : calls[c].path = "recover"
        /\ \E c \in Joined(t) : calls[c].path = "joined" /\ calls[c].bizErr # NoErr
        /\ wrappers[txs[t].wrapper].db = t

(* ------------------- claims about the registry and GetDb -------------- *)

\* the managers constructed for a pair
ConstructedFor(pair) ==
    {i \in 1..Len(managers) :
        managers[i].serviceName = pair.serviceName /\ managers[i].database = pair.database}

\* C11 as stated: any two NewTransactionManager calls made with equal pairs,
\* also calls that run concurrently, have returned the same manager object,
\* which is a constructed one; no call ends without returning; and at most one
\* manager is constructed for a pair and stored under its key.
C11_AsStated ==
    /\ ~Crashed
    /\ \A r1 \in tmRets : \A r2 \in tmRets : r1.pair = r2.pair => r1.tm = r2.tm
    /\ \A r \in tmRets : r.tm \in 1..Len(managers)
    /\ \A pair \in Pairs : Cardinality(ConstructedFor(pair)) <= 1

\* call c was entered without a usable wrapper and the connection source
\* could not provide a connection
NoConnection(c) == calls[c].path = "getDbPanic"

\* C12 as stated: a call entered without a usable wrapper for which no
\* connection can be obtained has returned (nil, the connection-unavailable
\* error) without invoking its callback, has created no wrapper and begun no
\* transaction, and has issued no commit and no rollback.
C12_AsStated ==
    \A c \in Calls :
        NoConnection(c) =>
            /\ Returned(c) /\ calls[c].res = NilRes /\ calls[c].err = ConnErr
            /\ ~calls[c].cbInvoked
            /\ ~calls[c].txOpenByMe /\ calls[c].tx = 0 /\ calls[c].ctx = calls[c].ctx0
            /\ NoOpsBy(c)

\* C13 as stated: a GetDb call for which the connection source could not
\* provide a connection has returned, and returned the nil handle.
C13_AsStated ==
    got.source = "failed" => (got.exit = "returned" /\ got.db = NilDb)

\* C14: a GetDb call that was given a context whose wrapper had a handle
\* returned exactly that handle without asking the connection source; called
\* from the callback of a Transaction call with the context that callback was
\* given, the handle is that call's transaction, on which nothing has been
\* issued while the callback runs.  A GetDb call given a context without
\* wrapper, or with a wrapper whose handle was empty, returned the handle of
\* the connection source, which is no transaction, unless the source failed.
C14_GetDbHandle ==
    /\ got.exit = "returned" =>
          /\ got.seen # NilDb => (got.db = got.seen /\ got.source = "none")
          /\ got.seen = NilDb => (got.db = Conn /\ got.source = "ok")
          /\ (got.in # 0 /\ got.ctx = calls[got.in].ctx) =>
                /\ got.db = calls[got.in].tx /\ got.db \in Txs
                /\ calls[got.in].pc = "callback" => txs[got.db].ops = <<>>
    /\ got.exit = "panicked" => (got.seen = NilDb /\ got.source = "failed")
    /\ Conn \notin Txs
C14_Witness ==
    /\ got.exit = "returned"
    /\ got.ctx # NoWrapper /\ wrappers[got.ctx] = reset(got.ctx)
    /\ got.seen = NilDb /\ got.db = Conn

\* C15: a step in which GetDb is called (it shows as a new record of the last
\* GetDb call) leaves every wrapper, every transaction, every Transaction call
\* and its context, and the cancellation state as they were: nothing is begun,
\* committed or rolled back.  And a step that enters Transaction with the
\* context the last GetDb call was given, when that call found no usable
\* wrapper in it and returned the source's connection, begins a new
\* transaction with a new wrapper, and the entering call owns it.
C15_EntersAfterGetDb ==
    IF Len(calls') # Len(calls) + 1 THEN FALSE
    ELSE /\ got.exit = "returned" /\ got.source = "ok"
         /\ calls'[Len(calls')].ctx0 = got.ctx
C15_GetDbOpensNothing ==
    [][/\ got' # got =>
             /\ wrappers' = wrappers /\ txs' = txs
             /\ calls' = calls /\ stack' = stack /\ cancelled' = cancelled
       /\ C15_EntersAfterGetDb =>
             /\ calls'[Len(calls')].txOpenByMe
             /\ calls'[Len(calls')].exit = "running"
             /\ Len(txs') = Len(txs) + 1 /\ calls'[Len(calls')].tx = Len(txs')
             /\ txs'[Len(txs')].by = Len(calls') /\ txs'[Len(txs')].ops = <<>>
             /\ Len(wrappers') = Len(wrappers) + 1
             /\ calls'[Len(calls')].wrapper = Len(wrappers')
             /\ wrappers'[Len(wrappers')] = NewWrapper(Len(txs'))
             /\ \A w \in 1..Len(wrappers) : wrappers'[w] = wrappers[w]]_vars
C15_Witness ==
    \E c \in Calls :
        /\ got.exit = "returned" /\ got.source = "ok"
        /\ got.in # 0 /\ Ended(got.in)
        /\ c > got.in /\ ~Encloses(got.in, c)
        /\ calls[c].ctx0 = got.ctx
        /\ calls[c].txOpenByMe /\ txs[calls[c].tx].by = c

\* call c was entered after call a was over
EnteredAfter(c, a) == Ended(a) /\ c > a /\ ~Encloses(a, c)

\* C16: when a call that began a transaction is over, however it ended
\* (commit, rollback, recovered panic, context done before or after the
\* callback), every Transaction call entered afterwards with the context that
\* had been passed to it begins a transaction of its own: a new transaction
\* and a new wrapper, which it owns; it does not join the earlier transaction
\* and is not refused with the earlier call's sticky error.
C16_NoStaleTransaction ==
    \A a \in Calls : \A c \in Calls :
        (calls[a].txOpenByMe /\ EnteredAfter(c, a) /\ calls[c].ctx0 = calls[a].ctx0) =>
            /\ calls[c].txOpenByMe
            /\ calls[c].tx # calls[a].tx /\ txs[calls[c].tx].by = c
            /\ calls[c].wrapper # calls[a].wrapper
            /\ calls[c].path # "alreadyFailed"
C16_Witness ==
    \E a \in Calls : \E c \in Calls :
        /\ calls[a].txOpenByMe /\ calls[a].path = "postCancel"
        /\ wrappers[calls[a].wrapper].db = calls[a].tx
        /\ EnteredAfter(c, a) /\ calls[c].ctx0 = calls[a].ctx0
        /\ calls[c].txOpenByMe /\ calls[c].tx # calls[a].tx

(* ------------------ claims about the ways a call returns -------------- *)

\* C17: when the callback of a call that began its transaction panics, the
\* panic does not leave Transaction: the call returns (nil, the panic
\* converted to an error), exactly one rollback and no commit has been issued
\* on the transaction, by that call, and the call left its wrapper empty:
\* the wrapper is the reset one from then on.
C17_OwnerPanicked(c) == calls[c].txOpenByMe /\ calls[c].panic # NoPanic
C17_OwnerPanicRecovered ==
    \A c \in Calls :
        C17_OwnerPanicked(c) =>
            /\ Returned(c) /\ calls[c].path = "recover"
            /\ calls[c].res = NilRes /\ Converted(calls[c].panic, calls[c].err)
            /\ OneOpBy(calls[c].tx, "rollback", c)
            /\ Commits(calls[c].tx) = {}
            /\ wrappers[calls[c].wrapper] = [db |-> NilDb, inTransaction |-> FALSE, err |-> NoErr]
C17_Witness ==
    \E c \in Calls :
        /\ C17_OwnerPanicked(c) /\ ~calls[c].panic.isErr
        /\ cancelled[calls[c].g]
        /\ \E n \in Joined(calls[c].tx) : CbFailed(n)
        /\ OneOpBy(calls[c].tx, "rollback", c)

\* C18: a call that joined a transaction, whose callback returned and which
\* found the context live at its re-check, returned exactly what its callback
\* returned, result and error, and issued no commit and no rollback.  When a
\* call nested in it had failed and its own callback returned no error, it
\* returned no error although the sticky error was set; the transaction is
\* then never committed, and the owning call, once it is over without having
\* found the context done, has rolled back and returned an error.
C18_JoinedReturned(c) ==
    /\ calls[c].tx # 0 /\ ~calls[c].txOpenByMe
    /\ Ended(c) /\ CbReturned(c) /\ ~calls[c].doneAtPost
C18_JoinedReturnsCallbackResult ==
    \A c \in Calls :
        C18_JoinedReturned(c) =>
            /\ Returned(c)
            /\ calls[c].res = calls[c].returnData /\ calls[c].err = calls[c].bizErr
            /\ NoOpsBy(c)
            /\ \A d \in Joined(calls[c].tx) :
                  (Encloses(c, d) /\ Failing(d)) =>
                      /\ Commits(calls[c].tx) = {}
                      /\ (Ended(OwnerOf(c)) /\ ~calls[OwnerOf(c)].doneAtPost) =>
                            /\ OneOpBy(calls[c].tx, "rollback", OwnerOf(c))
                            /\ calls[OwnerOf(c)].err # NoErr
C18_Witness ==
    \E c \in Calls : \E d \in Calls :
        /\ C18_JoinedReturned(c) /\ calls[c].bizErr = NoErr /\ calls[c].err = NoErr
        /\ calls[c].res \in Data
        /\ d \in Joined(calls[c].tx) /\ Encloses(c, d) /\ Failing(d)
        /\ CbOk(OwnerOf(c)) /\ calls[OwnerOf(c)].path = "rollback"

\* the errors recorded in the wrapper by the joined calls of transaction t
StickyErrsOn(t) == {Recorded(n) : n \in {k \in Joined(t) : Failing(k)}}

\* C19: a call that began its transaction and rolled it back after its
\* callback returned, with the rollback itself failing, returned the business
\* error of its callback or, when that returned none, the sticky error a
\* nested call had recorded, together with the callback's result; never the
\* rollback's failure.
C19_RollbackFailed(c) ==
    calls[c].txOpenByMe /\ calls[c].path = "rollback" /\ calls[c].opFailed
C19_RollbackFailureNotReturned ==
    \A c \in Calls :
        C19_RollbackFailed(c) =>
            /\ Returned(c) /\ calls[c].res = calls[c].returnData
            /\ calls[c].err # RollbackErr /\ calls[c].err # NoErr
            /\ calls[c].bizErr # NoErr => calls[c].err = calls[c].bizErr
            /\ calls[c].bizErr = NoErr => calls[c].err \in StickyErrsOn(calls[c].tx)
            /\ OneOpBy(calls[c].tx, "rollback", c)
C19_Witness ==
    \E c \in Calls : \E n \in Calls :
        /\ C19_RollbackFailed(c) /\ calls[c].bizErr = NoErr
        /\ n \in Joined(calls[c].tx) /\ CbPanicked(n)
        /\ calls[c].err = calls[n].err

\* C20: a call that began its transaction, whose callback returned no error,
\* with no error recorded by a nested call and the context live at its
\* re-check, issued one commit and no rollback and returned the callback's
\* result with the commit's error: none when the commit succeeded, the commit
\* failure alone when it failed.
C20_CleanOwner(c) ==
    /\ calls[c].txOpenByMe /\ Ended(c) /\ CbOk(c) /\ ~calls[c].doneAtPost
    /\ \A n \in Joined(calls[c].tx) : ~Failing(n)
C20_CommitErrorReturned ==
    \A c \in Calls :
        C20_CleanOwner(c) =>
            /\ Returned(c) /\ calls[c].path = "commit"
            /\ OneOpBy(calls[c].tx, "commit", c) /\ Rollbacks(calls[c].tx) = {}
            /\ calls[c].res = calls[c].returnData
            /\ calls[c].err = IF calls[c].opFailed THEN CommitErr ELSE NoErr
C20_Witness ==
    \E c \in Calls : \E d \in Calls :
        /\ C20_CleanOwner(c) /\ calls[c].opFailed
        /\ calls[c].err = CommitErr /\ calls[c].res \in Data
        /\ \E n \in Joined(calls[c].tx) : CbOk(n)
        /\ C20_CleanOwner(d) /\ ~calls[d].opFailed /\ calls[d].err = NoErr

(* --------------------- claims about the sticky error ------------------ *)

\* the sticky error of wrapper w is the converted panic of a call that joined
FaultSet(w) ==
    \E n \in Calls :
        /\ calls[n].wrapper = w /\ ~calls[n].txOpenByMe /\ CbPanicked(n)
        /\ wrappers[w].err = calls[n].err

\* C21 as stated: a step in which the callback of a call returns a business
\* error, while the sticky error of the call's wrapper is the converted panic
\* of a nested call, leaves the sticky error as it is.
C21_AsStated ==
    [][\A c \in Calls :
          (/\ calls[c].pc = "callback" /\ calls'[c].pc = "postcheck"
           /\ calls'[c].bizErr # NoErr
           /\ FaultSet(calls[c].wrapper)) =>
              wrappers'[calls[c].wrapper].err = wrappers[calls[c].wrapper].err]_vars

\* the call that resets wrapper w: the call that opened its transaction
Owns(c, w) == calls[c].wrapper = w /\ calls[c].txOpenByMe
\* C22: in every step from a state where the sticky error of a wrapper is
\* non-empty, either it is still non-empty afterwards or the step is the
\* owning call ending its resolution with the wrapper reset; and no such step
\* issues a commit on the wrapper's transaction.
C22_StickyErrorDoomsTransaction ==
    [][\A w \in 1..Len(wrappers) :
          wrappers[w].err # NoErr =>
             /\ \/ wrappers'[w].err # NoErr
                \/ /\ wrappers'[w] = reset(w)
                   /\ \E c \in Calls : Owns(c, w) /\ ~Ended(c) /\ calls'[c].pc = "done"
             /\ \A t \in Txs : txs[t].wrapper = w =>
                   \A i \in 1..Len(txs'[t].ops) :
                       i > Len(txs[t].ops) => txs'[t].ops[i].op # "commit"]_vars

\* reached: a nested call failed, then the callback of the joined call around
\* it and the callback of the owner both returned no error, and the owner
\* rolled back
C22_Witness ==
    \E o, m, n \in Calls :
        /\ calls[o].txOpenByMe /\ calls[m].parent = o /\ calls[n].parent = m
        /\ calls[m].tx = calls[o].tx /\ calls[n].tx = calls[o].tx
        /\ Failing(n) /\ CbOk(m) /\ CbOk(o)
        /\ Ended(o) /\ calls[o].path = "rollback"
        /\ Commits(calls[o].tx) = {}

(* -------------------- claims about the order of events ---------------- *)

\* C23: whenever a commit or rollback has been issued on a transaction, the
\* owning call issued it after its callback had returned or panicked, every
\* call that joined the transaction has ended, and the owner has ended too,
\* so that no call can join afterwards.
C23_ResolutionAfterUnitOfWork ==
    \A t \in Txs :
        txs[t].ops # <<>> =>
           /\ calls[txs[t].by].cbInvoked /\ Ended(txs[t].by)
           /\ CbReturned(txs[t].by) \/ CbPanicked(txs[t].by)
           /\ \A c \in Joined(t) : Ended(c)
           /\ \A c \in Calls : Encloses(txs[t].by, c) => Ended(c)
           /\ \A g \in Goroutines : calls[txs[t].by].ctx \notin CtxChoices(g)

\* reached: a committed transaction that two nested calls had joined, one
\* inside the other
C23_Witness ==
    \E t \in Txs : \E m, n \in Joined(t) :
        /\ calls[m].parent = txs[t].by /\ calls[n].parent = m
        /\ CbOk(m) /\ CbOk(n)
        /\ OneOpBy(t, "commit", txs[t].by)

(* ------------------ claims about the end of a call -------------------- *)

\* the empty state of a wrapper
EmptyWrapper == [db |-> NilDb, inTransaction |-> FALSE, err |-> NoErr]
\* call c opened a transaction and returned after rolling back or committing
ResolvedOwner(c) ==
    calls[c].txOpenByMe /\ Returned(c) /\ calls[c].path \in {"rollback", "commit"}

\* C26: the wrapper of an owning call that has returned after a rollback or a
\* commit has no handle, its transaction-open flag is false and its sticky
\* error is empty.
C26_ResolvedOwnerLeavesEmptyWrapper ==
    \A c \in Calls : ResolvedOwner(c) => wrappers[calls[c].wrapper] = EmptyWrapper

\* reached: an owner returned after a rollback caused by the sticky error of
\* a nested call, and another after a commit that failed
C26_Witness ==
    \E c, d \in Calls :
        /\ ResolvedOwner(c) /\ calls[c].path = "rollback" /\ calls[c].bizErr = NoErr
        /\ ResolvedOwner(d) /\ calls[d].path = "commit" /\ calls[d].opFailed
        /\ wrappers[calls[c].wrapper] = EmptyWrapper
        /\ wrappers[calls[d].wrapper] = EmptyWrapper

\* C29: a call that stands at the pre-callback check with its context done
\* can only take one step: it returns (nil, the context's error) without
\* having invoked its callback, whether it opened its transaction or joined
\* one, and that step changes no wrapper and issues nothing on a transaction.
C29_CancelledAtPreCheck ==
    [][\A c \in Calls :
          (calls[c].pc = "precheck" /\ cancelled[calls[c].g] /\ calls'[c] # calls[c]) =>
             /\ calls'[c].pc = "done" /\ calls'[c].exit = "returned"
             /\ calls'[c].res = NilRes /\ calls'[c].err = CtxErr
             /\ ~calls'[c].cbInvoked
             /\ wrappers' = wrappers /\ txs' = txs]_vars

\* reached: a call that joined and a call that opened a transaction have both
\* returned from the pre-callback check, the sticky errors still empty
C29_Witness ==
    \E c, d \in Calls :
        /\ calls[c].path = "preCancel" /\ ~calls[c].txOpenByMe /\ calls[c].tx # 0
        /\ calls[d].path = "preCancel" /\ calls[d].txOpenByMe
        /\ ~calls[c].cbInvoked /\ ~calls[d].cbInvoked
        /\ calls[c].err = CtxErr /\ calls[c].res = NilRes
        /\ wrappers[calls[c].wrapper].err = NoErr
        /\ wrappers[calls[d].wrapper].err = NoErr

(* ------------------------ claims about the logger --------------------- *)

\* an Init call has run initHelper
InitHasRun == once.done \/ \E p \in LogProcs : initCalls[p].pc \in {"ran", "unlock"}
\* the arguments and lateness of the Init calls that ran initHelper
InitWinners ==
    {[fn |-> i.fn, level |-> i.level, app |-> i.app, late |-> i.late, p |-> i.p] :
        i \in {j \in inits : j.ran}}
    \cup
    {[fn |-> initCalls[p].fn, level |-> initCalls[p].level, app |-> initCalls[p].app,
      late |-> initCalls[p].late, p |-> p] :
        p \in {q \in LogProcs : initCalls[q].pc \in {"ran", "unlock"}}}

\* C27: the global logger changes only in the step in which an Init call runs
\* initHelper, becoming the logger of that call's arguments, and only while
\* no Init call has run it before; so once an Init call has returned, exactly
\* one call has initialised the logger, that call began before any Init call
\* had returned, and the logger is the one made from its arguments.
C27_InitOnlyOnce ==
    [][/\ log' # log =>
             /\ ~InitHasRun
             /\ \E p \in LogProcs :
                   /\ initCalls[p].pc = "locked" /\ initCalls'[p].pc = "ran"
                   /\ log' = initHelper(initCalls[p].fn, initCalls[p].level, initCalls[p].app)
       /\ InitHasRun => log' = log
       /\ inits' # {} =>
             /\ Cardinality(InitWinners') = 1
             /\ \A w \in InitWinners' : ~w.late /\ log' = initHelper(w.fn, w.level, w.app)]_vars

\* reached: both goroutines raced for the first Init with different
\* arguments, one of them initialised the logger with an empty file name and
\* an unknown level, and a later call with other arguments has returned
C27_Witness ==
    \E a, b, c \in inits :
        /\ a.ran /\ ~b.ran /\ ~b.late /\ a.p # b.p /\ c.late
        /\ a.fn = "" /\ a.level = "verbose"
        /\ <<b.fn, b.level, b.app>> # <<a.fn, a.level, a.app>>
        /\ <<c.fn, c.level, c.app>> # <<a.fn, a.level, a.app>>
        /\ log = [fn |-> "data-debug.log", level |-> "info", app |-> a.app]
        /\ log # StartLogger

(* --------------------- claims about the order parser ------------------ *)

\* C28 as stated: called with any string, ParseOrderOption does not panic;
\* for every field name f it turns f, f_ASC and "f ASC" into the ascending
\* order on the lowered f, and f_DESC and "f DESC" into the descending order
\* on the lowered f, in any letter case.
C28_AsStated ==
    option # NotParsed =>
       /\ option # SliceOutOfRange
       /\ \A f \in FieldNames :
             /\ str \in AscForms(f) => option = [field |-> ToLower(f), order |-> ASC]
             /\ str \in DescForms(f) => option = [field |-> ToLower(f), order |-> DESC]

(* ------------- claims about calls on several goroutines --------------- *)

\* C24 as stated: of the calls that share a wrapper, nested in one another
\* or running side by side on the same context, at most one becomes the
\* owner, and no second transaction is begun on the wrapper.
C24_AsStated ==
    \A w \in 1..Len(wrappers) :
        /\ Cardinality({c \in Calls : Owns(c, w)}) <= 1
        /\ Cardinality({t \in Txs : txs[t].wrapper = w}) <= 1

\* a call made outside any callback with a context that carries no wrapper
TopLevel(c) == calls[c].parent = 0 /\ calls[c].ctx0 = NoWrapper
\* every such call, unless it ended for lack of a connection (no service
\* config, or the database cannot be opened), created a wrapper and began a
\* transaction that no other such call has
OwnWrapperAndTx ==
    \A c \in Calls :
        (TopLevel(c) /\ calls[c].path # "getDbPanic") =>
           /\ calls[c].txOpenByMe
           /\ txs[calls[c].tx].by = c /\ txs[calls[c].tx].wrapper = calls[c].wrapper
           /\ \A d \in Calls \ {c} :
                 TopLevel(d) => calls[d].wrapper # calls[c].wrapper /\ calls[d].tx # calls[c].tx

\* C25 as stated: top-level calls running side by side with contexts that
\* carry no wrapper each create their own wrapper and begin their own
\* transaction, and a step of a call changes only the wrapper and the
\* transaction that call is on, never those of another top-level call.
C25_AsStated ==
    [][/\ OwnWrapperAndTx'
       /\ \A w \in 1..Len(wrappers) :
             wrappers'[w] # wrappers[w] =>
                \E c \in 1..Len(calls') :
                   /\ calls'[c].wrapper = w
                   /\ c \in Calls => calls'[c] # calls[c]
       /\ \A t \in Txs :
             txs'[t] # txs[t] =>
                \E c \in Calls : calls[c].wrapper = txs[t].wrapper /\ calls'[c] # calls[c]]_vars

\* call c began its transaction in place: it owns the transaction of the
\* wrapper its context already carried
InPlace(c) == calls[c].txOpenByMe /\ calls[c].ctx0 = calls[c].wrapper

C31_AsStated ==
    \A r1, r2 \in tmRets :
        (r1.pair # r2.pair /\ r1.tm # NilTm /\ r2.tm # NilTm) =>
           /\ r1.tm # r2.tm
           /\ managers[r1.tm].ctxDbWrapperKey # managers[r2.tm].ctxDbWrapperKey

====
